---- MODULE Spec2Model ----
(***************************************************************************)
(* GitlabRunnerAutoscalingJobRunner (src/runner/job-runner.ts).            *)
(*                                                                         *)
(* The constructor resolves the props of one job runner inside a Stack:    *)
(* it registers the construct itself, fills the defaults, looks up the     *)
(* machine image, declares the Role and the CfnInstanceProfile in the      *)
(* Stack and adds the tags.  The Stack is the provisioning context; its    *)
(* children, the tags recorded on constructs and the image lookups         *)
(* recorded in its context are the state.                                  *)
(*                                                                         *)
(* A JavaScript value that may be undefined is a sequence of length <= 1:  *)
(* <<>> is undefined, <<v>> is the value v.  A string is the sequence of   *)
(* its characters, so "" is <<>> and is falsy as in JavaScript.            *)
(***************************************************************************)
EXTENDS Naturals, Sequences, FiniteSets, TLC

VARIABLES
    region,     \* scope.region of the enclosing Stack
    children,   \* scope.node.children, in declaration order
    tags,       \* Tags.of(construct).add(key, value) recorded so far
    lookups,    \* LookupMachineImage queries recorded in the Stack's context
    last,       \* the latest constructor call: arguments, outcome, the constructed runner
    calls       \* number of constructor calls made

vars == <<region, children, tags, lookups, last, calls>>

\* Bounds of the model.
MaxCalls == 2
MaxIds == 2

---------------------------------------------------------------------------
\* JavaScript values

Undefined == <<>>
Some(v) == <<v>>
Value(opt) == opt[1]

\* `a || b` where a is a string or undefined: "" and undefined are falsy.
StrOr(opt, default) ==
    IF opt = Undefined \/ Value(opt) = <<>> THEN Some(default) ELSE opt

\* `a || b` where a is an object or undefined: only undefined is falsy.
ObjOr(opt, default) ==
    IF opt = Undefined THEN Some(default) ELSE opt

---------------------------------------------------------------------------
\* pascalCase (package pascal-case, on top of no-case)

Lowers == <<"a","b","c","d","e","f","g","h","i","j","k","l","m",
            "n","o","p","q","r","s","t","u","v","w","x","y","z">>
Uppers == <<"A","B","C","D","E","F","G","H","I","J","K","L","M",
            "N","O","P","Q","R","S","T","U","V","W","X","Y","Z">>
Digits == <<"0","1","2","3","4","5","6","7","8","9">>

InSeq(c, s) == \E i \in 1..Len(s) : s[i] = c
IndexOf(c, s) == CHOOSE i \in 1..Len(s) : s[i] = c
IsLower(c) == InSeq(c, Lowers)
IsUpper(c) == InSeq(c, Uppers)
IsDigit(c) == InSeq(c, Digits)
IsAlnum(c) == IsLower(c) \/ IsUpper(c) \/ IsDigit(c)
ToUpper(c) == IF IsLower(c) THEN Uppers[IndexOf(c, Lowers)] ELSE c
ToLower(c) == IF IsUpper(c) THEN Lowers[IndexOf(c, Uppers)] ELSE c

\* splitRegexp: /([a-z0-9])([A-Z])/g and /([A-Z])([A-Z][a-z])/g put a word
\* boundary before s[i].
SplitBefore(s, i) ==
    /\ i > 1
    /\ IsUpper(s[i])
    /\ \/ IsLower(s[i-1]) \/ IsDigit(s[i-1])
       \/ IsUpper(s[i-1]) /\ i < Len(s) /\ IsLower(s[i+1])

\* The words of s: maximal runs of [A-Za-z0-9] (stripRegexp /[^A-Z0-9]+/gi
\* separates them), cut again at every split boundary.  `words` are the
\* finished words, `cur` the word being read, i the next position.
RECURSIVE WordsFrom(_, _, _, _)
WordsFrom(s, i, words, cur) ==
    IF i > Len(s)
    THEN IF cur = <<>> THEN words ELSE Append(words, cur)
    ELSE IF ~IsAlnum(s[i])
    THEN WordsFrom(s, i + 1, IF cur = <<>> THEN words ELSE Append(words, cur), <<>>)
    ELSE IF SplitBefore(s, i) /\ cur # <<>>
    THEN WordsFrom(s, i + 1, Append(words, cur), <<s[i]>>)
    ELSE WordsFrom(s, i + 1, words, Append(cur, s[i]))

\* pascalCaseTransform(input, index)
PascalCaseTransform(word, index) ==
    LET firstChar == word[1]
        lowerChars == [k \in 1..(Len(word) - 1) |-> ToLower(word[k + 1])]
    IN  IF index > 0 /\ IsDigit(firstChar)
        THEN <<"_", firstChar>> \o lowerChars
        ELSE <<ToUpper(firstChar)>> \o lowerChars

RECURSIVE JoinWords(_, _)
JoinWords(words, k) ==
    IF k > Len(words) THEN <<>>
    ELSE PascalCaseTransform(words[k], k - 1) \o JoinWords(words, k + 1)

pascalCase(s) == JoinWords(WordsFrom(s, 1, <<>>, <<>>), 1)

\* The runner names of the model: props.name is undefined, "", "my-runner"
\* or "myRunner"; "gitlab-runner" is the default.
DefaultName == <<"g","i","t","l","a","b","-","r","u","n","n","e","r">>
Names ==
    {Undefined, Some(<<>>),
     Some(<<"m","y","-","r","u","n","n","e","r">>),
     Some(<<"m","y","R","u","n","n","e","r">>)}

\* pascalCase, computed once for each of these names.
PascalCased == [s \in {DefaultName} \cup {n[1] : n \in Names \ {<<>>}} |-> pascalCase(s)]

---------------------------------------------------------------------------
\* Constructs of the Stack and the objects a caller passes in

JobRunnerConstruct(id) ==
    [id |-> id, kind |-> "GitlabRunnerAutoscalingJobRunner"]

Role(id) ==
    [id |-> id, kind |-> "Role",
     assumedBy |-> "ec2.amazonaws.com",
     managedPolicies |-> <<"AmazonEC2RoleforSSM">>]

CfnInstanceProfile(id, roles) ==
    [id |-> id, kind |-> "CfnInstanceProfile", roles |-> roles]

\* role.roleName: the reference by which a profile names its role.
RoleName(role) == role.id

Ids(cs) == {cs[i].id : i \in 1..Len(cs)}
OfKind(cs, kind) == {cs[i] : i \in {j \in 1..Len(cs) : cs[j].kind = kind}}

\* new X(scope, id, ...): Node.addChild throws when scope already has a
\* child named id, and appends the construct otherwise.
AddChild(scope, construct) ==
    IF construct.id \in Ids(scope.children)
    THEN [thrown |-> TRUE, scope |-> scope]
    ELSE [thrown |-> FALSE,
          scope |-> [scope EXCEPT !.children = Append(@, construct)]]

\* Tags.of(construct).add(key, value)
AddTag(scope, construct, key, value) ==
    [scope EXCEPT !.tags = @ \cup {[target |-> construct.id, key |-> key, value |-> value]}]

TagsOf(tagSet, construct) ==
    {[key |-> t.key, value |-> t.value] : t \in {u \in tagSet : u.target = construct.id}}

---------------------------------------------------------------------------
\* The constructor, statement by statement

DefaultGitlabUrl ==
    <<"h","t","t","p","s",":","/","/","g","i","t","l","a","b",".","c","o","m">>
DefaultInstanceType == [class |-> "t3", size |-> "micro"]

\* this.name = props.name || "gitlab-runner"
Name(props) == StrOr(props.name, DefaultName)

\* Variant of GitlabToken: a falsy token is replaced, `props.gitlabToken || "tok123"`.
GitlabTokenDefaulted(props) == StrOr(props.gitlabToken, <<"t","o","k","1","2","3">>)

\* this.gitlabToken = props.gitlabToken
GitlabToken(props) == props.gitlabToken

\* Variant of GitlabUrl: no default, `this.gitlabUrl = props.gitlabUrl`.
GitlabUrlWithoutDefault(props) == props.gitlabUrl

\* this.gitlabUrl = props.gitlabUrl || "https://gitlab.com"
GitlabUrl(props) == StrOr(props.gitlabUrl, DefaultGitlabUrl)

\* this.instanceType = props.instanceType || InstanceType.of(T3, MICRO)
InstanceTypeOf(props) == ObjOr(props.instanceType, DefaultInstanceType)

\* Variant of LookupFilters: the architecture filter is left out.
LookupFiltersWithoutArchitecture ==
    ("image-type" :> <<"machine">>) @@
    ("state" :> <<"available">>) @@
    ("root-device-type" :> <<"ebs">>) @@
    ("virtualization-type" :> <<"hvm">>)

\* The filters of the LookupMachineImage.
LookupFilters ==
    ("architecture" :> <<"x86_64">>) @@
    ("image-type" :> <<"machine">>) @@
    ("state" :> <<"available">>) @@
    ("root-device-type" :> <<"ebs">>) @@
    ("virtualization-type" :> <<"hvm">>)

\* new LookupMachineImage({name, owners, filters}).getImage(scope): the query
\* the Stack's context records, for the Stack's region.
LookupQuery(scope) ==
    [region |-> scope.region,
     name |-> "ubuntu/images/hvm-ssd/ubuntu-focal-20.04-amd64-server-*",
     owners |-> <<"099720109477">>,
     filters |-> LookupFilters]

\* Variant of ResolveMachineImage: the lookup is built before props.machineImage
\* is looked at, `const found = lookup(); this.machineImage = props.machineImage || found`.
ResolveMachineImageEagerLookup(scope, props) ==
    [scope |-> [scope EXCEPT !.lookups = @ \cup {LookupQuery(scope)}],
     value |-> ObjOr(props.machineImage,
                     [kind |-> "GenericLinuxImage",
                      amiMap |-> (scope.region :> [imageIdOf |-> LookupQuery(scope)])])]

\* this.machineImage = props.machineImage || MachineImage.genericLinux({...}):
\* the lookup is built and recorded only when props.machineImage is undefined.
ResolveMachineImage(scope, props) ==
    IF props.machineImage # Undefined
    THEN [scope |-> scope, value |-> props.machineImage]
    ELSE [scope |-> [scope EXCEPT !.lookups = @ \cup {LookupQuery(scope)}],
          value |-> Some([kind |-> "GenericLinuxImage",
                          amiMap |-> (scope.region :> [imageIdOf |-> LookupQuery(scope)])])]

\* `RunnersRoleFor${pascalCase(this.name)}`
RoleId(name) ==
    <<"R","u","n","n","e","r","s","R","o","l","e","F","o","r">> \o PascalCased[name]

\* Variant of ResolveRole: the Role is declared whether or not props.role is given.
ResolveRoleAlwaysNew(scope, props, name) ==
    LET added == AddChild(scope, Role(RoleId(name)))
    IN  [thrown |-> added.thrown, scope |-> added.scope,
         value |-> Some(Role(RoleId(name)))]

\* this.role = props.role || new Role(scope, RoleId, {...})
ResolveRole(scope, props, name) ==
    IF props.role # Undefined
    THEN [thrown |-> FALSE, scope |-> scope, value |-> props.role]
    ELSE LET added == AddChild(scope, Role(RoleId(name)))
         IN  [thrown |-> added.thrown, scope |-> added.scope,
              value |-> Some(Role(RoleId(name)))]

InstanceProfileId ==
    <<"R","u","n","n","e","r","s","I","n","s","t","a","n","c","e","P","r","o","f","i","l","e">>

\* Variant of InstanceProfileRoles: reads the optional prop, `roles: [props.role?.roleName]`.
InstanceProfileRolesFromProps(props, role) ==
    IF props.role = Undefined THEN <<>> ELSE <<RoleName(Value(props.role))>>

\* roles: [this.role.roleName]
InstanceProfileRoles(props, role) == <<RoleName(role)>>

\* this.instanceProfile = new CfnInstanceProfile(scope, "RunnersInstanceProfile", {roles})
DeclareInstanceProfile(scope, props, role) ==
    LET profile == CfnInstanceProfile(InstanceProfileId, InstanceProfileRoles(props, role))
        added == AddChild(scope, profile)
    IN  [thrown |-> added.thrown, scope |-> added.scope, value |-> Some(profile)]

RunnersInstanceProfileTag == InstanceProfileId
RunnersRoleTag == <<"R","u","n","n","e","r","s","R","o","l","e">>

\* Variant of AddTags: one tag, RunnersRole, on both constructs.
AddTagsSameTag(scope, props, profile, role) ==
    AddTag(AddTag(scope, profile, RunnersRoleTag, RunnersRoleTag),
           role, RunnersRoleTag, RunnersRoleTag)

\* Variant of AddTags: a role passed in by the caller is not tagged.
AddTagsDeclaredOnly(scope, props, profile, role) ==
    LET s == AddTag(scope, profile, RunnersInstanceProfileTag, RunnersInstanceProfileTag)
    IN  IF props.role # Undefined THEN s
        ELSE AddTag(s, role, RunnersRoleTag, RunnersRoleTag)

\* Tags.of(this.instanceProfile).add(...); Tags.of(this.role).add(...)
AddTags(scope, props, profile, role) ==
    AddTag(AddTag(scope, profile, RunnersInstanceProfileTag, RunnersInstanceProfileTag),
           role, RunnersRoleTag, RunnersRoleTag)

Thrown(scope, stage) ==
    [thrown |-> TRUE, stage |-> stage, scope |-> scope, runner |-> Undefined]

\* new GitlabRunnerAutoscalingJobRunner(scope, id, props): the scope it leaves
\* behind and either the constructed runner or the statement that threw.
Constructor(scope, id, props) ==
    LET super == AddChild(scope, JobRunnerConstruct(id))
    IN  IF super.thrown THEN Thrown(super.scope, "super") ELSE
    LET name == Name(props)
        image == ResolveMachineImage(super.scope, props)
        role == ResolveRole(image.scope, props, Value(name))
    IN  IF role.thrown THEN Thrown(role.scope, "role") ELSE
    LET profile == DeclareInstanceProfile(role.scope, props, Value(role.value))
    IN  IF profile.thrown THEN Thrown(profile.scope, "instanceProfile") ELSE
        [thrown |-> FALSE, stage |-> "done",
         scope |-> AddTags(profile.scope, props, Value(profile.value), Value(role.value)),
         runner |-> Some([name |-> name,
                          gitlabToken |-> GitlabToken(props),
                          gitlabUrl |-> GitlabUrl(props),
                          instanceType |-> InstanceTypeOf(props),
                          machineImage |-> image.value,
                          role |-> role.value,
                          limit |-> props.limit,
                          outputLimit |-> props.outputLimit,
                          environment |-> props.environment,
                          docker |-> props.docker,
                          machine |-> props.machine,
                          autoscaling |-> props.autoscaling,
                          instanceProfile |-> profile.value])]

---------------------------------------------------------------------------
\* The calls the model makes

Regions == {"eu-central-1"}

\* Construct ids the caller chooses: Runner1, Runner2, ...
RunnerIds == {<<"R","u","n","n","e","r">> \o <<Digits[n + 1]>> : n \in 1..MaxIds}

Tokens == {Undefined, Some(<<>>), Some(<<"t","o","k","1","2","3">>)}

CallerRole == [id |-> <<"C","a","l","l","e","r","R","o","l","e">>, kind |-> "IRole"]
CallerRoles == {Undefined, Some(CallerRole)}

CallerImage == [kind |-> "IMachineImage", imageId |-> "ami-0caller"]
CallerImages == {Undefined, Some(CallerImage)}

CallerProfile ==
    CfnInstanceProfile(<<"C","a","l","l","e","r","P","r","o","f","i","l","e">>, <<>>)

\* The remaining optional props: none given, all given.
Optionals ==
    {[gitlabUrl |-> Undefined, instanceType |-> Undefined, limit |-> Undefined,
      outputLimit |-> Undefined, environment |-> Undefined, docker |-> Undefined,
      machine |-> Undefined, autoscaling |-> Undefined, instanceProfile |-> Undefined],
     [gitlabUrl |-> Some(<<"h","t","t","p","s",":","/","/","g","i","t",".","e","x","a","m","p","l","e">>),
      instanceType |-> Some([class |-> "m5", size |-> "large"]),
      limit |-> Some(0), outputLimit |-> Some(4096),
      environment |-> Some(<<"DOCKER_DRIVER=overlay2", "DOCKER_TLS_CERTDIR=/certs">>),
      docker |-> Some([privileged |-> TRUE]),
      machine |-> Some([idleCount |-> 0]),
      autoscaling |-> Some(<<[idleCount |-> 1]>>),
      instanceProfile |-> Some(CallerProfile)]}

PropsSet ==
    {[name |-> n, gitlabToken |-> t, gitlabUrl |-> o.gitlabUrl,
      instanceType |-> o.instanceType, machineImage |-> i, role |-> r,
      limit |-> o.limit, outputLimit |-> o.outputLimit,
      environment |-> o.environment, docker |-> o.docker, machine |-> o.machine,
      autoscaling |-> o.autoscaling, instanceProfile |-> o.instanceProfile] :
        n \in Names, t \in Tokens, i \in CallerImages, r \in CallerRoles,
        o \in Optionals}

Scope == [region |-> region, children |-> children, tags |-> tags, lookups |-> lookups]

Init ==
    /\ region \in Regions
    /\ children = <<>>
    /\ tags = {}
    /\ lookups = {}
    /\ last = [outcome |-> "none"]
    /\ calls = 0

\* One call new GitlabRunnerAutoscalingJobRunner(scope, id, props).
Construct(id, props) ==
    /\ calls < MaxCalls
    /\ LET result == Constructor(Scope, id, props)
       IN  /\ children' = result.scope.children
           /\ tags' = result.scope.tags
           /\ lookups' = result.scope.lookups
           /\ last' = [outcome |-> IF result.thrown THEN "thrown" ELSE "returned",
                       stage |-> result.stage,
                       error |-> IF result.thrown
                                 THEN "There is already a Construct with name"
                                 ELSE "",
                       id |-> id, props |-> props, runner |-> result.runner]
    /\ calls' = calls + 1
    /\ UNCHANGED region

Next == \E id \in RunnerIds, props \in PropsSet : Construct(id, props)

Spec == Init /\ [][Next]_vars

---------------------------------------------------------------------------
\* Vocabulary of the properties

\* The step is a constructor call.
Called == calls' = calls + 1

Returned(l) == l.outcome = "returned"
ThrownIn(l) == l.outcome = "thrown"

\* gitlabToken is undefined or "".
TokenMissing(props) ==
    props.gitlabToken = Undefined \/ Value(props.gitlabToken) = <<>>

Roles(cs) == OfKind(cs, "Role")
Profiles(cs) == OfKind(cs, "CfnInstanceProfile")

\* The identifiers the constructor derives itself for the props.
GeneratedIds(props) ==
    {InstanceProfileId} \cup
    (IF props.role = Undefined THEN {RoleId(Value(Name(props)))} ELSE {})

\* An identifier the call uses is already a child of the Stack.
IdTaken(cs, id, props) ==
    (({id} \cup GeneratedIds(props)) \cap Ids(cs)) # {} \/ id \in GeneratedIds(props)

RunnersRoleTagged == [key |-> RunnersRoleTag, value |-> RunnersRoleTag]
RunnersInstanceProfileTagged ==
    [key |-> RunnersInstanceProfileTag, value |-> RunnersInstanceProfileTag]

DefaultedFields == {"name", "gitlabUrl", "instanceType", "machineImage", "role", "instanceProfile"}
PassedFields == {"limit", "outputLimit", "environment", "docker", "machine", "autoscaling"}

---------------------------------------------------------------------------
C3_SuppliedRoleReused ==
    [][(Called /\ last'.props.role # Undefined) =>
        /\ Roles(children') = Roles(children)
        /\ Returned(last') => Value(last'.runner).role = last'.props.role]_vars

C3_Witness ==
    /\ Returned(last)
    /\ last.props.role = Some(CallerRole)
    /\ Value(last.runner).role = Some(CallerRole)
    /\ Roles(children) = {}

\* C4 (as claimed): when props.role is undefined, a call that returns adds
\* exactly one Role and exactly one instance profile, and the two carry one
\* and the same tag, whose key equals its value.
C4_OneTagOnBoth ==
    [][(Called /\ Returned(last') /\ last'.props.role = Undefined) =>
        /\ Cardinality(Roles(children')) = Cardinality(Roles(children)) + 1
        /\ Cardinality(Profiles(children')) = Cardinality(Profiles(children)) + 1
        /\ \E tag \in TagsOf(tags', Value(Value(last'.runner).role)) :
            /\ tag \in TagsOf(tags', Value(Value(last'.runner).instanceProfile))
            /\ tag.key = tag.value]_vars

\* C4 (amended): when props.role is undefined, a call that returns adds
\* exactly one Role and exactly one instance profile; each carries a fixed
\* tag of its own whose key equals its value: RunnersRole on the Role,
\* RunnersInstanceProfile on the instance profile.
C4_OneTagEach ==
    [][(Called /\ Returned(last') /\ last'.props.role = Undefined) =>
        LET role == Value(Value(last'.runner).role)
            profile == Value(Value(last'.runner).instanceProfile)
        IN  /\ Roles(children') = Roles(children) \cup {role}
            /\ role \notin Roles(children)
            /\ Profiles(children') = Profiles(children) \cup {profile}
            /\ profile \notin Profiles(children)
            /\ Len(children') = Len(children) + 3
            /\ TagsOf(tags', role) = {RunnersRoleTagged}
            /\ TagsOf(tags', profile) = {RunnersInstanceProfileTagged}]_vars

C4_Witness ==
    /\ Returned(last)
    /\ last.props.role = Undefined
    /\ Cardinality(Roles(children)) = 1
    /\ Cardinality(Profiles(children)) = 1
    /\ Cardinality(tags) = 2

\* C5 (as claimed): when props.role is given, the tags of that role after
\* the call are its tags before the call.
C5_SuppliedRoleUntagged ==
    [][(Called /\ last'.props.role # Undefined) =>
        TagsOf(tags', Value(last'.props.role)) = TagsOf(tags, Value(last'.props.role))]_vars

\* C5 (amended): when props.role is given, a call that returns adds the tag
\* RunnersRole = RunnersRole to that role, next to the tags it had, and the
\* tag RunnersInstanceProfile to the declared profile; a call that throws
\* adds no tag.
C5_SuppliedRoleTagged ==
    [][(Called /\ last'.props.role # Undefined) =>
        LET role == Value(last'.props.role)
        IN  IF Returned(last')
            THEN /\ TagsOf(tags', role) = TagsOf(tags, role) \cup {RunnersRoleTagged}
                 /\ tags' = tags \cup
                        {[target |-> role.id, key |-> RunnersRoleTag, value |-> RunnersRoleTag],
                         [target |-> InstanceProfileId, key |-> RunnersInstanceProfileTag,
                          value |-> RunnersInstanceProfileTag]}
            ELSE tags' = tags]_vars

C5_Witness ==
    /\ Returned(last)
    /\ last.props.role = Some(CallerRole)
    /\ RunnersRoleTagged \in TagsOf(tags, CallerRole)

\* C6 (as claimed): a call whose own construct id is new to the Stack
\* generates no identifier that is already declared in the Stack.
C6_GeneratedIdsUnique ==
    [][(Called /\ last'.id \notin Ids(children)) =>
        GeneratedIds(last'.props) \cap Ids(children) = {}]_vars

\* C7: when props.machineImage is given, the call records no image lookup,
\* and the machineImage of the returned runner is the given one.
C7_SuppliedImageVerbatim ==
    [][(Called /\ last'.props.machineImage # Undefined) =>
        /\ lookups' = lookups
        /\ Returned(last') => Value(last'.runner).machineImage = last'.props.machineImage]_vars

C7_Witness ==
    /\ Returned(last)
    /\ last.props.machineImage = Some(CallerImage)
    /\ Value(last.runner).machineImage = Some(CallerImage)
    /\ lookups = {}

\* C8: when props.machineImage is undefined and the call gets past super(),
\* a lookup for the Stack's region is recorded, and every recorded lookup
\* filters on architecture x86_64, state available, virtualization-type hvm,
\* image-type machine and root-device-type ebs, with the one owner
\* 099720109477.
C8_LookupFilters ==
    /\ \A q \in lookups :
        /\ {"architecture", "state", "virtualization-type", "image-type", "root-device-type"}
               \subseteq DOMAIN q.filters
        /\ q.filters["architecture"] = <<"x86_64">>
        /\ q.filters["state"] = <<"available">>
        /\ q.filters["virtualization-type"] = <<"hvm">>
        /\ q.filters["image-type"] = <<"machine">>
        /\ q.filters["root-device-type"] = <<"ebs">>
        /\ q.owners = <<"099720109477">>
    /\ (last.outcome # "none" /\ last.stage # "super" /\ last.props.machineImage = Undefined) =>
        /\ \E q \in lookups : q.region = region
        /\ Returned(last) =>
            \E q \in lookups :
                /\ q.region = region
                /\ Value(Value(last.runner).machineImage).amiMap[region] = [imageIdOf |-> q]

C8_Witness ==
    /\ Returned(last)
    /\ last.props.machineImage = Undefined
    /\ Cardinality(lookups) = 1

\* C9 (as claimed): a call that throws leaves behind no Role, no instance
\* profile and no tag of its own.
C9_NothingLeftBehind ==
    [][(Called /\ ThrownIn(last')) =>
        /\ Roles(children') = Roles(children)
        /\ Profiles(children') = Profiles(children)
        /\ tags' = tags]_vars

\* C10: every call that returns declares one instance profile, whatever
\* props.role and props.instanceProfile are; it is the last child declared,
\* after the Role when the call declares one; it is the runner's
\* instanceProfile; and its roles name the runner's role, which is
\* props.role when given and the Role just declared otherwise.
C10_ProfileBindsResolvedRole ==
    [][(Called /\ Returned(last')) =>
        LET runner == Value(last'.runner)
            n == Len(children')
            profile == children'[n]
        IN  /\ profile.kind = "CfnInstanceProfile"
            /\ profile.id = InstanceProfileId
            /\ Profiles(children') = Profiles(children) \cup {profile}
            /\ profile \notin Profiles(children)
            /\ runner.instanceProfile = Some(profile)
            /\ profile.roles = <<RoleName(Value(runner.role))>>
            /\ IF last'.props.role # Undefined
               THEN /\ runner.role = last'.props.role
                    /\ n = Len(children) + 2
               ELSE /\ runner.role = Some(children'[n - 1])
                    /\ children'[n - 1].kind = "Role"
                    /\ n = Len(children) + 3]_vars

C10_Witness ==
    /\ Returned(last)
    /\ last.props.role = Some(CallerRole)
    /\ last.props.instanceProfile = Some(CallerProfile)
    /\ Value(last.runner).instanceProfile # Some(CallerProfile)
    /\ Value(Value(last.runner).instanceProfile).roles = <<RoleName(CallerRole)>>

====
